---- MODULE Spec2Model ----
(***************************************************************************)
(* Trade ledger of the stock trading simulator (backend/database.js).      *)
(*                                                                         *)
(* Two storage modes are modelled: the process-local memoryStore and the   *)
(* SQLite connection.  executeTrade on the memory store has no await and   *)
(* runs as one step.  executeTrade on SQLite only queues statements on the *)
(* shared connection; every statement completes in a later step, and the   *)
(* callback of a completed statement issues the next ones.  Statements     *)
(* issued inside db.serialize run one at a time in order, statements       *)
(* issued from callbacks (outside db.serialize) run in parallel mode: the  *)
(* order in which they complete is not fixed.                              *)
(*                                                                         *)
(* Money and prices are JavaScript numbers.  All inputs are integers, so   *)
(* balances and totals stay exact integers; average prices are quotients   *)
(* and are kept as exact fractions <<n, d>> (d = 0 encodes NaN and the     *)
(* infinities); the rounding of a double is not modelled.                  *)
(***************************************************************************)
EXTENDS Integers, Sequences, FiniteSets, TLC

\* ------------------------------------------------------------------ bounds
MaxTrades == 3       \* executeTrade calls per behaviour
MaxFaults == 1       \* injected write failures per behaviour (SpecFault)
MaxSlots == 2        \* call records kept at a time
MaxUsers == 3        \* accounts in a store
Slots == 1..MaxSlots

\* ------------------------------------------------------------ input domains
DefaultBalance == 100000
DemoId == 1
UnknownId == DemoId + 1               \* never registered
Symbols == {"AAPL"}
Types == {"BUY", "SELL"}
\* <<price, quantity>> arguments: well-formed ones, and a zero quantity, a
\* negative quantity and a negative price
Orders == {<<40000, 1>>, <<60000, 1>>, <<60000, 2>>,
           <<60000, 0>>, <<60000, -1>>, <<-60000, 1>>}
\* <<userId, symbol, type, <<price, quantity>>>>
Inputs == ({DemoId} \X Symbols \X Types \X Orders)
          \cup ({UnknownId} \X Symbols \X Types \X {<<60000, 1>>})

\* -------------------------------------------------- JavaScript number model
NaN == <<0, 0>>
Null == <<0, -1>>                     \* SQL NULL / JavaScript null
Num(i) == <<i, 1>>

Abs(i) == IF i < 0 THEN -i ELSE i
Sgn(i) == IF i < 0 THEN -1 ELSE IF i > 0 THEN 1 ELSE 0

RECURSIVE Gcd(_, _)
Gcd(a, b) == IF b = 0 THEN a ELSE Gcd(b, a % b)

\* canonical form of the quotient n/d, d >= 0
Norm(n, d) ==
  IF d = 0 THEN <<Sgn(n), 0>>
  ELSE LET g == Gcd(Abs(n), d) IN <<n \div g, d \div g>>

FMul(a, b) == Norm(a[1] * b[1], a[2] * b[2])
FAdd(a, b) ==
  IF a[2] = 0 /\ b[2] = 0 THEN (IF a[1] = b[1] THEN a ELSE NaN)
  ELSE Norm(a[1] * b[2] + b[1] * a[2], a[2] * b[2])
FInv(a) ==
  IF a[1] > 0 THEN <<a[2], a[1]>>
  ELSE IF a[1] < 0 THEN <<-a[2], -a[1]>>
  ELSE IF a[2] = 0 THEN NaN ELSE <<1, 0>>
FDiv(a, b) == FMul(a, FInv(b))

\* ------------------------------------------------------------------- state
VARIABLES
  useMemory,      \* which backend serves the calls
  memoryStore,    \* [users, portfolios, transactions] of the memory fallback
  dbData,         \* tables as the SQLite connection sees them
  dbSnap,         \* tables at the BEGIN of the open transaction (what ROLLBACK restores)
  inTx,           \* a transaction is open on the connection
  queue,          \* statements waiting in the connection's queue
  running,        \* statements handed to the thread pool, not yet completed
  locked,         \* the connection's exclusive flag
  trades,         \* slot -> record of an executeTrade call not yet forgotten
  ncalls,         \* executeTrade calls made so far
  faults,         \* write failures injected so far
  clock,          \* the last value read from the time source (new Date())
  reply,          \* what the last query returned, until the next trade arrives
  init            \* how far initDatabase has come

vars == <<useMemory, memoryStore, dbData, dbSnap, inTx, queue, running, locked,
          trades, ncalls, faults, clock, reply, init>>
dbVars == <<dbData, dbSnap, inTx, queue, running, locked>>

EmptyFn == [k \in {} |-> 0]
\* users: id -> balance, names: id -> username
EmptyStore == [users |-> EmptyFn, names |-> EmptyFn, portfolios |-> EmptyFn,
               transactions |-> <<>>]

Put(f, k, v) == [x \in DOMAIN f \cup {k} |-> IF x = k THEN v ELSE f[x]]
Del(f, k) == [x \in DOMAIN f \ {k} |-> f[x]]

NoReply == [op |-> "none"]

\* the default account of initMemoryData / createTables
SeededStore == [EmptyStore EXCEPT !.users = Put(EmptyFn, DemoId, DefaultBalance),
                                 !.names = Put(EmptyFn, DemoId, "demo")]

\* the transaction record of one trade
TxRecord(store, userId, symbol, type, price, quantity, now) ==
  [id |-> Len(store.transactions) + 1, user_id |-> userId, symbol |-> symbol,
   type |-> type, price |-> price, quantity |-> quantity,
   total_amount |-> price * quantity, timestamp |-> now]

\* the BUY guard of both branches: the balance does not cover the total
FundsCheckPriceOnly(balance, price, quantity) == balance < price

InsufficientFunds(balance, price, quantity) == balance < price * quantity

\* ------------------------------------------------- executeTrade, memory branch
\* The outcome of the memory branch on a store: the new store and the result.
MemFail(store, msg) ==
  [store |-> store, outcome |-> "rejected", error |-> msg, balance |-> 0,
   transaction |-> <<>>]

\* the memory BUY with the average overwritten by the price of the last purchase
MemBuyLastPrice(store, userId, symbol, price, quantity) ==
  LET key == <<userId, symbol>>
      p == IF key \in DOMAIN store.portfolios THEN store.portfolios[key]
           ELSE [quantity |-> 0, average_price |-> Num(0)]
  IN [store EXCEPT !.users[userId] = @ - price * quantity,
                   !.portfolios = Put(@, key, [quantity |-> p.quantity + quantity,
                                               average_price |-> Num(price)])]

\* the memory BUY that adds the quantity and leaves the average as it was
MemBuyKeepsAverage(store, userId, symbol, price, quantity) ==
  LET key == <<userId, symbol>>
      p == IF key \in DOMAIN store.portfolios THEN store.portfolios[key]
           ELSE [quantity |-> 0, average_price |-> Num(0)]
  IN [store EXCEPT !.users[userId] = @ - price * quantity,
                   !.portfolios = Put(@, key, [p EXCEPT !.quantity = @ + quantity])]

MemBuy(store, userId, symbol, price, quantity) ==
  LET total == price * quantity
      key == <<userId, symbol>>
      p == IF key \in DOMAIN store.portfolios THEN store.portfolios[key]
           ELSE [quantity |-> 0, average_price |-> Num(0)]
      oldTotalVal == FMul(Num(p.quantity), p.average_price)
      newQty == p.quantity + quantity
      np == [quantity |-> newQty,
             average_price |-> FDiv(FAdd(oldTotalVal, Num(total)), Num(newQty))]
  IN [store EXCEPT !.users[userId] = @ - total,
                   !.portfolios = Put(@, key, np)]

\* the memory SELL that records the sale price as the new average
MemSellSetsAverage(store, userId, symbol, price, quantity) ==
  LET key == <<userId, symbol>>
      p == store.portfolios[key]
      newQty == p.quantity - quantity
  IN [store EXCEPT !.users[userId] = @ + price * quantity,
                   !.portfolios = IF newQty = 0 THEN Del(@, key)
                                  ELSE Put(@, key, [quantity |-> newQty,
                                                    average_price |-> Num(price)])]

\* a sell that closes out every position of the account
MemSellAllSymbols(store, userId, symbol, price, quantity) ==
  LET key == <<userId, symbol>>
      p == store.portfolios[key]
      newQty == p.quantity - quantity
      others == {k \in DOMAIN store.portfolios : k[1] # userId}
  IN [store EXCEPT !.users[userId] = @ + price * quantity,
                   !.portfolios = IF newQty = 0 THEN [k \in others |-> @[k]]
                                  ELSE Put(@, key, [p EXCEPT !.quantity = newQty])]

MemSell(store, userId, symbol, price, quantity) ==
  LET total == price * quantity
      key == <<userId, symbol>>
      p == store.portfolios[key]
      newQty == p.quantity - quantity
  IN [store EXCEPT !.users[userId] = @ + total,
                   !.portfolios = IF newQty = 0 THEN Del(@, key)
                                  ELSE Put(@, key, [p EXCEPT !.quantity = newQty])]

MemExecuteTrade(store, userId, symbol, type, price, quantity, now) ==
  LET total == price * quantity
      key == <<userId, symbol>>
  IN IF userId \notin DOMAIN store.users THEN MemFail(store, "User not found")
     ELSE IF type = "BUY" /\ InsufficientFunds(store.users[userId], price, quantity)
       THEN MemFail(store, "Insufficient funds")
     ELSE IF type # "BUY" /\ (key \notin DOMAIN store.portfolios
                              \/ store.portfolios[key].quantity < quantity)
       THEN MemFail(store, "Insufficient holdings")
     ELSE LET s1 == IF type = "BUY" THEN MemBuy(store, userId, symbol, price, quantity)
                    ELSE MemSell(store, userId, symbol, price, quantity)
              tx == TxRecord(s1, userId, symbol, type, price, quantity, now)
              s2 == [s1 EXCEPT !.transactions = Append(@, tx)]
          IN [store |-> s2, outcome |-> "resolved", error |-> "",
              balance |-> s2.users[userId], transaction |-> <<tx>>]


\* a statement of call t is queued or running on the connection
HasStatements(t) ==
  \/ \E st \in running : st.t = t
  \/ \E i \in DOMAIN queue : queue[i].s.t = t

\* the call has settled and every statement it issued has completed
Done(t) == t \in DOMAIN trades /\ trades[t].outcome # "pending" /\ ~HasStatements(t)

\* One call record: the arguments, how the promise settled, and what is
\* remembered about the call: the store when it was made (pre), whether its
\* balance UPDATE and its COMMIT have run, whether a later write of it failed,
\* its number in submission order (seq), whether no other call was in flight
\* when it was made (alone), which of COMMIT and ROLLBACK it has issued
\* (issued) and which of resolve and reject it has invoked (called).
Call(userId, symbol, type, price, quantity, now, pre) ==
  [userId |-> userId, symbol |-> symbol, type |-> type, price |-> price,
   quantity |-> quantity, now |-> now, outcome |-> "pending", error |-> "",
   balance |-> 0, transaction |-> <<>>,
   pre |-> pre, debited |-> FALSE, committed |-> FALSE, faulted |-> FALSE,
   seq |-> ncalls + 1, alone |-> \A t \in DOMAIN trades : Done(t),
   issued |-> {}, called |-> {}]

\* no call is in flight and the connection has nothing left to run
Idle == \A t \in DOMAIN trades : Done(t)

\* records of finished calls are dropped when the next call arrives
Unfinished == [t \in {x \in DOMAIN trades : ~Done(x)} |-> trades[t]]
FreeSlot == CHOOSE t \in Slots : t \notin DOMAIN Unfinished
                                 /\ \A x \in Slots : x < t => x \in DOMAIN Unfinished

ExecuteTradeMemory(userId, symbol, type, price, quantity, now) ==
  /\ useMemory
  /\ ncalls < MaxTrades
  /\ clock' = now
  /\ LET r == MemExecuteTrade(memoryStore, userId, symbol, type, price, quantity, now)
         c == Call(userId, symbol, type, price, quantity, now, memoryStore)
     IN /\ memoryStore' = r.store
        /\ trades' = Put(Unfinished, FreeSlot,
                         [c EXCEPT !.outcome = r.outcome, !.error = r.error,
                                   !.balance = r.balance,
                                   !.transaction = r.transaction,
                                   !.called = {r.outcome}])
  /\ ncalls' = ncalls + 1
  /\ reply' = NoReply
  /\ UNCHANGED <<useMemory, dbVars, faults, init>>

\* --------------------------------------- the SQLite connection (db.serialize)
\* A statement: the call it belongs to, its kind, the source line that issues
\* it, and the values bound to it (n: an amount or a quantity, a: an average).
Stmt(t, k, at, n, a) == [t |-> t, k |-> k, at |-> at, n |-> n, a |-> a]

Sched == [queue |-> queue, running |-> running, locked |-> locked]

\* Database::Schedule: a statement issued in serialized mode, or while the
\* connection is locked, waits in the queue when others are running;
\* otherwise it starts at once.
Schedule(s, st, serialized) ==
  IF (s.locked \/ serialized) /\ s.running # {}
  THEN [s EXCEPT !.queue = Append(@, [s |-> st, excl |-> serialized])]
  ELSE [s EXCEPT !.locked = FALSE, !.running = @ \cup {st}]

RECURSIVE ScheduleAll(_, _, _)
ScheduleAll(s, sts, serialized) ==
  IF sts = <<>> THEN s
  ELSE ScheduleAll(Schedule(s, Head(sts), serialized), Tail(sts), serialized)

\* Database::Process: start queued statements; a serialized one starts only
\* when nothing else is running and then locks the connection.
RECURSIVE Process(_)
Process(s) ==
  IF (~s.locked \/ s.running = {}) /\ s.queue # <<>>
  THEN LET c == Head(s.queue)
       IN IF c.excl /\ s.running # {} THEN s
          ELSE Process([queue |-> Tail(s.queue), running |-> s.running \cup {c.s},
                        locked |-> c.excl])
  ELSE s

WriteKinds == {"UPDATE_BALANCE", "INSERT_PORTFOLIO", "UPDATE_PORTFOLIO",
               "UPDATE_QUANTITY", "DELETE_PORTFOLIO", "INSERT_TRANSACTION"}

\* NaN is bound as NULL; a NULL column reads as null, which counts as 0
SqlBind(a) == IF a = NaN THEN Null ELSE a
JsNumber(a) == IF a = Null THEN Num(0) ELSE a

\* The tables after statement st of call c has run (not failed).
SqlWrite(d, st, c) ==
  LET key == <<c.userId, c.symbol>> IN
  CASE st.k = "UPDATE_BALANCE" ->
         IF c.userId \in DOMAIN d.users
         THEN [d EXCEPT !.users[c.userId] = @ + st.n] ELSE d
    [] st.k = "INSERT_PORTFOLIO" ->
         IF key \in DOMAIN d.portfolios THEN d      \* primary key: statement fails
         ELSE [d EXCEPT !.portfolios =
                 Put(@, key, [quantity |-> st.n, average_price |-> SqlBind(st.a)])]
    [] st.k = "UPDATE_PORTFOLIO" ->
         IF key \in DOMAIN d.portfolios
         THEN [d EXCEPT !.portfolios[key] =
                 [quantity |-> st.n, average_price |-> SqlBind(st.a)]]
         ELSE d
    [] st.k = "UPDATE_QUANTITY" ->
         IF key \in DOMAIN d.portfolios
         THEN [d EXCEPT !.portfolios[key].quantity = st.n] ELSE d
    [] st.k = "DELETE_PORTFOLIO" -> [d EXCEPT !.portfolios = Del(@, key)]
    [] st.k = "INSERT_TRANSACTION" ->
         [d EXCEPT !.transactions =
            Append(@, TxRecord(d, c.userId, c.symbol, c.type, c.price, c.quantity,
                               c.now))]
    [] OTHER -> d

\* The connection's tables, snapshot and transaction flag after st has run.
SqlEffect(st, c, fail) ==
  LET now == [data |-> dbData, snap |-> dbSnap, inTx |-> inTx] IN
  CASE st.k = "BEGIN" ->
         IF inTx THEN now                  \* cannot start a transaction within one
         ELSE [data |-> dbData, snap |-> dbData, inTx |-> TRUE]
    [] st.k = "COMMIT" ->
         IF inTx THEN [data |-> dbData, snap |-> dbData, inTx |-> FALSE] ELSE now
    [] st.k = "ROLLBACK" ->
         IF inTx THEN [data |-> dbSnap, snap |-> dbSnap, inTx |-> FALSE] ELSE now
    [] st.k \in WriteKinds /\ ~fail ->
         LET d == SqlWrite(dbData, st, c)
         IN [data |-> d, snap |-> IF inTx THEN dbSnap ELSE d, inTx |-> inTx]
    [] OTHER -> now

\* (the transaction field: the record handed back with the result, if any)
NoSettle == [outcome |-> "pending", error |-> "", balance |-> 0, transaction |-> <<>>]
Reject(msg) ==
  [outcome |-> "rejected", error |-> msg, balance |-> 0, transaction |-> <<>>]

\* What the completion callback of st does, run before the statement is
\* retired: the statements it issues (parallel mode) and how it settles the call.
Callback(st, c, d, fail) ==
  LET key == <<c.userId, c.symbol>>
      total == c.price * c.quantity
      t == st.t
      pf == d.portfolios[key]
  IN
  CASE st.k = "SELECT_PORTFOLIO" /\ c.type = "BUY" ->
         IF key \in DOMAIN d.portfolios
         THEN LET newQty == pf.quantity + c.quantity
                  newAvg == FDiv(FAdd(FMul(Num(pf.quantity), JsNumber(pf.average_price)),
                                      Num(total)), Num(newQty))
              IN [issue |-> <<Stmt(t, "UPDATE_PORTFOLIO", 279, newQty, newAvg)>>,
                  settle |-> NoSettle]
         ELSE [issue |-> <<Stmt(t, "INSERT_PORTFOLIO", 282, c.quantity, Num(c.price))>>,
               settle |-> NoSettle]
    [] st.k = "SELECT_PORTFOLIO" /\ c.type # "BUY" ->
         IF key \notin DOMAIN d.portfolios \/ pf.quantity < c.quantity
         THEN [issue |-> <<Stmt(t, "ROLLBACK", 295, 0, Num(0))>>,
               settle |-> Reject("Insufficient holdings")]
         ELSE LET newQty == pf.quantity - c.quantity
              IN [issue |-> <<Stmt(t, "UPDATE_BALANCE", 300, total, Num(0)),
                              IF newQty = 0
                              THEN Stmt(t, "DELETE_PORTFOLIO", 305, 0, Num(0))
                              ELSE Stmt(t, "UPDATE_QUANTITY", 307, newQty, Num(0))>>,
                  settle |-> NoSettle]
    [] st.k = "INSERT_TRANSACTION" ->
         IF fail
         THEN [issue |-> <<Stmt(t, "ROLLBACK", 318, 0, Num(0))>>,
               settle |-> Reject("SQLITE_ERROR")]
         ELSE [issue |-> <<Stmt(t, "COMMIT", 321, 0, Num(0)),
                           Stmt(t, "SELECT_RESULT", 323, 0, Num(0))>>,
               settle |-> NoSettle]
    [] st.k = "SELECT_RESULT" ->
         [issue |-> <<>>,
          settle |-> [outcome |-> "resolved", error |-> "",
                      balance |-> IF c.userId \in DOMAIN d.users
                                  THEN d.users[c.userId] ELSE 0,
                      transaction |-> <<>>]]
    [] OTHER -> [issue |-> <<>>, settle |-> NoSettle]

\* The .then handler of checkUser for a row that was found (lines 266-327):
\* the funds check, then the statements of the trade, issued in parallel mode.
ThenHandler(st, c, d) ==
  LET total == c.price * c.quantity
      t == st.t
  IN
  IF c.type = "BUY" /\ InsufficientFunds(d.users[c.userId], c.price, c.quantity)
    THEN [issue |-> <<Stmt(t, "ROLLBACK", 330, 0, Num(0))>>,
          settle |-> Reject("Insufficient funds")]
  ELSE IF c.type = "BUY"
    THEN [issue |-> <<Stmt(t, "UPDATE_BALANCE", 271, -total, Num(0)),
                      Stmt(t, "SELECT_PORTFOLIO", 274, 0, Num(0)),
                      Stmt(t, "INSERT_TRANSACTION", 314, 0, Num(0))>>,
          settle |-> NoSettle]
  ELSE [issue |-> <<Stmt(t, "SELECT_PORTFOLIO", 289, 0, Num(0)),
                    Stmt(t, "INSERT_TRANSACTION", 314, 0, Num(0))>>,
        settle |-> NoSettle]

\* checkUser without the !row test: the handler then fails on the missing row
ReactionNoRowTest(st, c, d) ==
  IF st.k # "SELECT_BALANCE" THEN [issue |-> <<>>, settle |-> NoSettle]
  ELSE IF c.userId \notin DOMAIN d.users
    THEN [issue |-> <<Stmt(st.t, "ROLLBACK", 330, 0, Num(0))>>,
          settle |-> Reject("TypeError")]
  ELSE ThenHandler(st, c, d)

\* The promise reactions of checkUser, run after the SELECT of line 260 has
\* been retired: no row rejects with 'User not found', which the .catch of
\* line 329 turns into ROLLBACK and the rejection of the call.
Reaction(st, c, d) ==
  IF st.k # "SELECT_BALANCE" THEN [issue |-> <<>>, settle |-> NoSettle]
  ELSE IF c.userId \notin DOMAIN d.users
    THEN [issue |-> <<Stmt(st.t, "ROLLBACK", 330, 0, Num(0))>>,
          settle |-> Reject("User not found")]
  ELSE ThenHandler(st, c, d)

\* a promise settles once: later resolve/reject calls are ignored
Settle(c, s) ==
  IF c.outcome = "pending" /\ s.outcome # "pending"
  THEN [c EXCEPT !.outcome = s.outcome, !.error = s.error, !.balance = s.balance,
                 !.transaction = s.transaction]
  ELSE c

\* the kinds of the statements sts
Kinds(sts) == {sts[i].k : i \in DOMAIN sts}

\* executeTrade, SQLite branch: the db.serialize block queues BEGIN and the
\* balance SELECT and returns the pending promise.
ExecuteTradeSqlite(userId, symbol, type, price, quantity, now, overlap) ==
  /\ ~useMemory
  /\ ncalls < MaxTrades
  /\ clock' = now
  /\ overlap \/ Idle
  /\ \E t \in Slots : t \notin DOMAIN Unfinished
  /\ LET t == FreeSlot
         s == ScheduleAll(Sched, <<Stmt(t, "BEGIN", 256, 0, Num(0)),
                                   Stmt(t, "SELECT_BALANCE", 260, 0, Num(0))>>, TRUE)
     IN /\ trades' = Put(Unfinished, t, Call(userId, symbol, type, price, quantity, now,
                                                  dbData))
        /\ queue' = s.queue
        /\ running' = s.running
        /\ locked' = s.locked
  /\ ncalls' = ncalls + 1
  /\ reply' = NoReply
  /\ UNCHANGED <<useMemory, memoryStore, dbData, dbSnap, inTx, faults, init>>

\* One running statement completes: its effect on the tables, its callback,
\* its retirement (which starts queued statements), then the promise reactions.
Complete(st, fail) ==
  /\ st \in running
  /\ fail => st.k \in WriteKinds
  /\ LET c == trades[st.t]
         e == SqlEffect(st, c, fail)
         cb == Callback(st, c, dbData, fail)
         s1 == ScheduleAll(Sched, cb.issue, FALSE)
         s2 == Process([s1 EXCEPT !.running = @ \ {st}])
         re == Reaction(st, c, dbData)
         s3 == ScheduleAll(s2, re.issue, FALSE)
     IN /\ dbData' = e.data
        /\ dbSnap' = e.snap
        /\ inTx' = e.inTx
        /\ queue' = s3.queue
        /\ running' = s3.running
        /\ locked' = s3.locked
        /\ trades' = [trades EXCEPT ![st.t] =
                        [Settle(Settle(c, cb.settle), re.settle) EXCEPT
                           !.debited = @ \/ (st.k = "UPDATE_BALANCE" /\ ~fail),
                           !.committed = @ \/ (st.k = "COMMIT" /\ inTx),
                           !.faulted = @ \/ (fail /\ st.k # "UPDATE_BALANCE" /\ c.debited),
                           !.issued = @ \cup (Kinds(cb.issue \o re.issue)
                                                \cap {"COMMIT", "ROLLBACK"}),
                           !.called = @ \cup ({cb.settle.outcome, re.settle.outcome}
                                                \ {"pending"})]]
  /\ faults' = IF fail THEN faults + 1 ELSE faults
  /\ UNCHANGED <<useMemory, memoryStore, ncalls, clock, reply, init>>

StatementCompletes == \E st \in running : Complete(st, FALSE)

\* ------------------------------------------------------------- getTransactions
Reverse(rows) == [i \in 1..Len(rows) |-> rows[Len(rows) + 1 - i]]

\* the records of the account, in the order they were appended
RecordsOf(store, userId) ==
  LET Mine(tx) == tx.user_id = userId IN SelectSeq(store.transactions, Mine)

\* memory branch: filter(...).reverse()
MemGetTransactions(store, userId) == Reverse(RecordsOf(store, userId))

\* SQLite branch: ORDER BY timestamp DESC fixes the order of rows with
\* different timestamps only; rows with equal timestamps come in any order.
SqlGetTransactions(d, userId) ==
  LET rows == RecordsOf(d, userId)
      n == Len(rows)
      Sorted(p) == /\ \A i \in 1..n, j \in 1..n : i # j => p[i] # p[j]
                   /\ \A i \in 1..n, j \in 1..n :
                        i < j => rows[p[i]].timestamp >= rows[p[j]].timestamp
  IN {[i \in 1..n |-> rows[p[i]]] : p \in {q \in [1..n -> 1..n] : Sorted(q)}}

\* getTransactions(userId), asked when no trade is in flight: the SELECT then
\* runs at once and nothing can run between its issue and its answer.
GetTransactions(userId) ==
  /\ \A t \in DOMAIN trades : Done(t)
  /\ \E rows \in IF useMemory THEN {MemGetTransactions(memoryStore, userId)}
                  ELSE SqlGetTransactions(dbData, userId) :
       reply' = [op |-> "getTransactions", userId |-> userId, rows |-> rows,
                 memory |-> useMemory]
  /\ UNCHANGED <<useMemory, memoryStore, dbVars, trades, ncalls, faults, clock, init>>

WriteFails == faults < MaxFaults /\ \E st \in running : Complete(st, TRUE)

\* ------------------------------------------------------------ initDatabase
\* initMemoryData: the default account is pushed onto memoryStore.users
InitMemoryData(store) ==
  [store EXCEPT !.users = Put(@, DemoId, DefaultBalance),
                !.names = Put(@, DemoId, "demo")]

\* the promise of initDatabase has resolved
Resolved == init \in {"seeding", "done"}

\* new sqlite3.Database(DB_PATH, callback): the connection cannot be opened
OpenFails ==
  /\ init = "opening"
  /\ useMemory' = TRUE
  /\ memoryStore' = InitMemoryData(memoryStore)
  /\ init' = "done"
  /\ UNCHANGED <<dbVars, trades, ncalls, faults, clock, reply>>

\* the connection is open: createTables issues the three CREATE TABLE statements
OpenOk ==
  /\ init = "opening"
  /\ init' = "creating"
  /\ UNCHANGED <<useMemory, memoryStore, dbVars, trades, ncalls, faults, clock, reply>>

\* the last CREATE TABLE reports an error: createTables rejects
TablesFail ==
  /\ init = "creating"
  /\ useMemory' = TRUE
  /\ memoryStore' = InitMemoryData(memoryStore)
  /\ init' = "done"
  /\ UNCHANGED <<dbVars, trades, ncalls, faults, clock, reply>>

\* the tables exist: the callback issues SELECT count(*) FROM users
TablesCreated ==
  /\ init = "creating"
  /\ init' = "counting"
  /\ UNCHANGED <<useMemory, memoryStore, dbVars, trades, ncalls, faults, clock, reply>>

\* the count is answered: with no account the INSERT of the default account
\* is issued (stmt.run, no callback); in both cases the promise resolves
CountAnswers ==
  /\ init = "counting"
  /\ init' = IF DOMAIN dbData.users = {} THEN "seeding" ELSE "done"
  /\ UNCHANGED <<useMemory, memoryStore, dbVars, trades, ncalls, faults, clock, reply>>

\* the INSERT of the default account has run
SeedCompletes ==
  /\ init = "seeding"
  /\ dbData' = InitMemoryData(dbData)
  /\ dbSnap' = IF inTx THEN dbSnap ELSE dbData'
  /\ init' = "done"
  /\ UNCHANGED <<useMemory, memoryStore, inTx, queue, running, locked, trades, ncalls,
                 faults, clock, reply>>

\* ------------------------------------------------- accounts and their queries
Usernames == {"demo", "bob"}
NameTaken(store, username) == \E u \in DOMAIN store.names : store.names[u] = username
NextId(store) ==
  IF DOMAIN store.users = {} THEN 1
  ELSE 1 + CHOOSE m \in DOMAIN store.users : \A u \in DOMAIN store.users : u <= m

AddUser(store, id, username) ==
  [store EXCEPT !.users = Put(@, id, DefaultBalance), !.names = Put(@, id, username)]

\* createUser, memory branch: the new account is pushed with id length + 1
MemCreateUser(store, username) ==
  [store |-> AddUser(store, Cardinality(DOMAIN store.users) + 1, username),
   ok |-> TRUE]

\* createUser, SQLite branch: the INSERT fails on a username that exists
\* (username TEXT UNIQUE) and the call throws 'User creation failed'
SqlCreateUser(d, username) ==
  IF NameTaken(d, username) THEN [store |-> d, ok |-> FALSE]
  ELSE [store |-> AddUser(d, NextId(d), username), ok |-> TRUE]

\* createUser(username, password), called when no trade is in flight
CreateUser(username) ==
  /\ \A t \in DOMAIN trades : Done(t)
  /\ Cardinality(DOMAIN (IF useMemory THEN memoryStore ELSE dbData).users) < MaxUsers
  /\ LET old == IF useMemory THEN memoryStore ELSE dbData
         r == IF useMemory THEN MemCreateUser(memoryStore, username)
              ELSE SqlCreateUser(dbData, username)
     IN /\ memoryStore' = IF useMemory THEN r.store ELSE memoryStore
        /\ dbData' = IF useMemory THEN dbData ELSE r.store
        /\ dbSnap' = IF useMemory \/ inTx THEN dbSnap ELSE r.store
        /\ reply' = [op |-> "createUser", username |-> username, ok |-> r.ok,
                     taken |-> NameTaken(old, username),
                     added |-> DOMAIN r.store.users \ DOMAIN old.users,
                     memory |-> useMemory]
  /\ UNCHANGED <<useMemory, inTx, queue, running, locked, trades, ncalls, faults,
                 clock, init>>

\* the row of an account: <<>> when there is none
UserRow(store, id) ==
  IF id \in DOMAIN store.users
  THEN <<[id |-> id, username |-> store.names[id], balance |-> store.users[id]]>>
  ELSE <<>>

\* getUserById(id)
GetUserById(id) ==
  /\ \A t \in DOMAIN trades : Done(t)
  /\ reply' = [op |-> "getUserById", userId |-> id,
               rows |-> UserRow(IF useMemory THEN memoryStore ELSE dbData, id),
               memory |-> useMemory]
  /\ UNCHANGED <<useMemory, memoryStore, dbVars, trades, ncalls, faults, clock, init>>

\* the positions of an account
PortfolioRows(store, userId) ==
  {[symbol |-> k[2], quantity |-> store.portfolios[k].quantity,
    average_price |-> store.portfolios[k].average_price] :
     k \in {x \in DOMAIN store.portfolios : x[1] = userId}}

\* getPortfolio without the useMemory branch: dbAll rejects in memory mode
\* and the method answers with no rows
GetPortfolioNoBranch(userId) ==
  /\ \A t \in DOMAIN trades : trades[t].outcome # "pending"
  /\ ~locked \/ running = {}
  /\ reply' = [op |-> "getPortfolio", userId |-> userId,
               rows |-> IF useMemory THEN {} ELSE PortfolioRows(dbData, userId),
               memory |-> FALSE]
  /\ UNCHANGED <<useMemory, memoryStore, dbVars, trades, ncalls, faults, clock, init>>

\* getPortfolio(userId), asked when every trade has settled.  On SQLite the
\* SELECT starts at once when the connection is not locked, in parallel with
\* statements of the settled trade that are still running; it is answered
\* here before any of them completes, which is one of the possible orders.
GetPortfolio(userId) ==
  /\ \A t \in DOMAIN trades : trades[t].outcome # "pending"
  /\ ~locked \/ running = {}
  /\ reply' = [op |-> "getPortfolio", userId |-> userId,
               rows |-> PortfolioRows(IF useMemory THEN memoryStore ELSE dbData, userId),
               memory |-> useMemory]
  /\ UNCHANGED <<useMemory, memoryStore, dbVars, trades, ncalls, faults, clock, init>>

Init ==
  /\ useMemory \in BOOLEAN
  /\ memoryStore = IF useMemory THEN SeededStore ELSE EmptyStore
  /\ dbData = IF useMemory THEN EmptyStore ELSE SeededStore
  /\ dbSnap = dbData
  /\ inTx = FALSE
  /\ queue = <<>>
  /\ running = {}
  /\ locked = FALSE
  /\ trades = EmptyFn
  /\ ncalls = 0
  /\ faults = 0
  /\ clock = 0
  /\ reply = NoReply
  /\ init = "done"

\* a reading of the time source later than the last one
Later == clock + 1

\* Calls arrive one at a time, each when the connection is idle.  (A caller
\* that only awaits the previous result gets the same executions: the BEGIN of
\* the new call is queued in serialized mode and starts only after every
\* statement of the previous call has completed.)
Next ==
  \/ \E i \in Inputs : ExecuteTradeMemory(i[1], i[2], i[3], i[4][1], i[4][2], Later)
  \/ \E i \in Inputs : ExecuteTradeSqlite(i[1], i[2], i[3], i[4][1], i[4][2], Later,
                                           FALSE)
  \/ StatementCompletes

Spec == Init /\ [][Next]_vars

\* the same, with writes that may fail
NextFault ==
  \/ Next
  \/ WriteFails

SpecFault == Init /\ [][NextFault]_vars

\* Calls made one at a time with a time source that may return the same value
\* on consecutive reads, and queries of the log between the calls.  The orders
\* are purchases the balance covers twice.
Reads == {clock, clock + 1}
ClockOrders == {<<40000, 1>>}
ClockInputs == {DemoId} \X Symbols \X {"BUY"} \X ClockOrders

NextClock ==
  \/ \E i \in ClockInputs, now \in Reads :
       ExecuteTradeMemory(i[1], i[2], i[3], i[4][1], i[4][2], now)
  \/ \E i \in ClockInputs, now \in Reads :
       ExecuteTradeSqlite(i[1], i[2], i[3], i[4][1], i[4][2], now, FALSE)
  \/ StatementCompletes
  \/ \E u \in {DemoId, UnknownId} : GetTransactions(u)

SpecClock == Init /\ [][NextClock]_vars

\* The process from its start: initDatabase runs, and once its promise has
\* resolved the business methods are called, one at a time.
BootOrders == {<<60000, 1>>}
BootInputs == {DemoId, UnknownId} \X Symbols \X Types \X BootOrders

\* the database file is new, or holds the default account of an earlier run
Boot ==
  /\ useMemory = FALSE
  /\ memoryStore = EmptyStore
  /\ dbData \in {EmptyStore, SeededStore}
  /\ dbSnap = dbData
  /\ inTx = FALSE
  /\ queue = <<>>
  /\ running = {}
  /\ locked = FALSE
  /\ trades = EmptyFn
  /\ ncalls = 0
  /\ faults = 0
  /\ clock = 0
  /\ reply = NoReply
  /\ init = "opening"

NextBoot ==
  \/ OpenFails
  \/ OpenOk
  \/ TablesFail
  \/ TablesCreated
  \/ CountAnswers
  \/ SeedCompletes
  \/ init = "done" /\ \E i \in BootInputs :
       ExecuteTradeMemory(i[1], i[2], i[3], i[4][1], i[4][2], Later)
  \/ init = "done" /\ \E i \in BootInputs :
       ExecuteTradeSqlite(i[1], i[2], i[3], i[4][1], i[4][2], Later, FALSE)
  \/ StatementCompletes
  \/ init = "done" /\ \E n \in Usernames : CreateUser(n)
  \/ Resolved /\ \E u \in {DemoId, UnknownId} : GetUserById(u)
  \/ Resolved /\ \E u \in {DemoId, UnknownId} : GetPortfolio(u)
  \/ Resolved /\ \E u \in {DemoId, UnknownId} : GetTransactions(u)

SpecBoot == Boot /\ [][NextBoot]_vars

\* Calls made one at a time, and the positions asked for once a call has settled.
NextQuery ==
  \/ Next
  \/ \E u \in {DemoId, UnknownId} : GetPortfolio(u)

SpecQuery == Init /\ [][NextQuery]_vars

\* Calls made one at a time whose type argument is any string: 'HOLD' stands
\* for every value other than 'BUY' and 'SELL'.
SideTypes == {"BUY", "SELL", "HOLD"}
SideOrders == {<<40000, 1>>}
SideInputs == {DemoId} \X Symbols \X SideTypes \X SideOrders

NextSide ==
  \/ \E i \in SideInputs : ExecuteTradeMemory(i[1], i[2], i[3], i[4][1], i[4][2], Later)
  \/ \E i \in SideInputs : ExecuteTradeSqlite(i[1], i[2], i[3], i[4][1], i[4][2], Later,
                                               FALSE)
  \/ StatementCompletes

SpecSide == Init /\ [][NextSide]_vars

\* The process from its start with the server listening at once: server.js
\* calls initDatabase() without waiting for it and then server.listen, so the
\* query routes are served while initDatabase is still running.  A query on
\* the connection is answered once the connection is open, whatever
\* createTables has done by then.
NextStartup ==
  \/ OpenFails
  \/ OpenOk
  \/ TablesFail
  \/ TablesCreated
  \/ CountAnswers
  \/ SeedCompletes
  \/ init # "opening" /\ \E u \in {DemoId, UnknownId} : GetUserById(u)
  \/ init # "opening" /\ \E u \in {DemoId, UnknownId} : GetPortfolio(u)
  \/ init # "opening" /\ \E u \in {DemoId, UnknownId} : GetTransactions(u)
  \/ init = "done" /\ \E i \in BootInputs :
       ExecuteTradeMemory(i[1], i[2], i[3], i[4][1], i[4][2], Later)
  \/ init = "done" /\ \E i \in BootInputs :
       ExecuteTradeSqlite(i[1], i[2], i[3], i[4][1], i[4][2], Later, FALSE)
  \/ StatementCompletes

SpecStartup == Boot /\ [][NextStartup]_vars

\* Two accounts trading two symbols: the default account and one registered
\* through createUser, calls made one at a time.
LocalSymbols == {"AAPL", "MSFT"}
LocalOrders == {<<40000, 1>>}
LocalInputs == {DemoId, UnknownId} \X LocalSymbols \X Types \X LocalOrders

NextLocal ==
  \/ CreateUser("bob")
  \/ \E i \in LocalInputs :
       ExecuteTradeMemory(i[1], i[2], i[3], i[4][1], i[4][2], Later)
  \/ \E i \in LocalInputs :
       ExecuteTradeSqlite(i[1], i[2], i[3], i[4][1], i[4][2], Later, FALSE)
  \/ StatementCompletes

SpecLocal == Init /\ [][NextLocal]_vars

\* ------------------------------------------------ POST /api/trade (server.js)
\* A field of the JSON body: absent, a number or a string; text is the
\* characters of the string, or of String(number) for a number.
Absent == [json |-> "absent", text |-> <<>>]
JsonNumber(text) == [json |-> "number", text |-> text]
JsonString(text) == [json |-> "string", text |-> text]

DigitChars == <<"0", "1", "2", "3", "4", "5", "6", "7", "8", "9">>
IsDigit(ch) == \E i \in DOMAIN DigitChars : DigitChars[i] = ch
DigitVal(ch) == (CHOOSE i \in DOMAIN DigitChars : DigitChars[i] = ch) - 1

\* how many digits the text starts with, and their decimal value
RECURSIVE LeadingDigits(_)
LeadingDigits(text) ==
  IF text = <<>> \/ ~IsDigit(Head(text)) THEN 0 ELSE 1 + LeadingDigits(Tail(text))

RECURSIVE Decimal(_)
Decimal(digits) ==
  IF digits = <<>> THEN 0
  ELSE 10 * Decimal(SubSeq(digits, 1, Len(digits) - 1)) + DigitVal(digits[Len(digits)])

RECURSIVE Pow10(_)
Pow10(n) == IF n = 0 THEN 1 ELSE 10 * Pow10(n - 1)

RECURSIVE TrimStart(_)
TrimStart(text) ==
  IF text # <<>> /\ Head(text) = " " THEN TrimStart(Tail(text)) ELSE text

SignOf(text) == IF text # <<>> /\ Head(text) = "-" THEN -1 ELSE 1
Unsigned(text) == IF text # <<>> /\ Head(text) \in {"-", "+"} THEN Tail(text) ELSE text

\* parseInt(text): leading blanks, a sign, then digits up to the first other
\* character; NaN when there is no digit
ParseInt(text) ==
  LET body == Unsigned(TrimStart(text))
      n == LeadingDigits(body)
  IN IF n = 0 THEN NaN
     ELSE Num(SignOf(TrimStart(text)) * Decimal(SubSeq(body, 1, n)))

\* parseFloat(text): as parseInt, with a fraction after a decimal point
ParseFloat(text) ==
  LET body == Unsigned(TrimStart(text))
      n == LeadingDigits(body)
      rest == SubSeq(body, n + 1, Len(body))
      m == IF rest # <<>> /\ Head(rest) = "." THEN LeadingDigits(Tail(rest)) ELSE 0
      whole == Decimal(SubSeq(body, 1, n))
      frac == Decimal(SubSeq(body, n + 2, n + 1 + m))
  IN IF n = 0 /\ m = 0 THEN NaN
     ELSE Norm(SignOf(TrimStart(text)) * (whole * Pow10(m) + frac), Pow10(m))

\* the value is truthy: !value is false
Truthy(v) ==
  CASE v.json = "absent" -> FALSE
    [] v.json = "string" -> v.text # <<>>
    [] v.json = "number" -> ParseFloat(v.text)[1] # 0

\* line 555: all four fields are truthy
GatePasses(symbol, type, quantity, price) ==
  Truthy(symbol) /\ Truthy(type) /\ Truthy(quantity) /\ Truthy(price)

\* the symbol and the side as executeTrade receives them
SymbolOf(v) == CASE v.text = <<"A", "A", "P", "L">> -> "AAPL"
TypeOf(v) == CASE v.text = <<"B", "U", "Y">> -> "BUY"
               [] v.text = <<"S", "E", "L", "L">> -> "SELL"

\* the route: 400 when a field is missing, otherwise executeTrade with
\* parseFloat(price) and parseInt(quantity) for the default account.  The
\* bodies sent are those whose parsed price and quantity are whole numbers.
PostTrade(symbol, type, quantity, price) ==
  IF ~GatePasses(symbol, type, quantity, price)
  THEN /\ reply' = [op |-> "trade", status |-> 400]
       /\ UNCHANGED <<useMemory, memoryStore, dbVars, trades, ncalls, faults, clock, init>>
  ELSE LET p == ParseFloat(price.text)
           q == ParseInt(quantity.text)
       IN /\ p[2] = 1 /\ q[2] = 1
          /\ \/ ExecuteTradeMemory(DemoId, SymbolOf(symbol), TypeOf(type), p[1], q[1], Later)
             \/ ExecuteTradeSqlite(DemoId, SymbolOf(symbol), TypeOf(type), p[1], q[1], Later,
                                   FALSE)

GateSymbols == {JsonString(<<"A", "A", "P", "L">>), Absent}
GateTypes == {JsonString(<<"B", "U", "Y">>)}
GateQuantities ==
  {Absent,
   JsonNumber(<<"1">>), JsonNumber(<<"0">>), JsonNumber(<<"-", "1">>),
   JsonNumber(<<"0", ".", "5">>),
   JsonString(<<"0">>), JsonString(<<"0", ".", "5">>), JsonString(<<>>)}
GatePrices ==
  {Absent,
   JsonNumber(<<"6", "0", "0", "0", "0">>), JsonNumber(<<"0">>),
   JsonNumber(<<"-", "6", "0", "0", "0", "0">>),
   JsonString(<<"6", "0", "0", "0", "0">>)}

NextGate ==
  \/ \E s \in GateSymbols, ty \in GateTypes, q \in GateQuantities, p \in GatePrices :
       PostTrade(s, ty, q, p)
  \/ StatementCompletes

SpecGate == Init /\ [][NextGate]_vars

\* Calls that arrive while earlier ones are still in flight (concurrent
\* requests on the one connection), for well-formed orders the account can pay.
OverlapOrders == {<<60000, 1>>}
OverlapInputs == {DemoId} \X Symbols \X Types \X OverlapOrders

NextOverlap ==
  \/ \E i \in OverlapInputs :
       ExecuteTradeMemory(i[1], i[2], i[3], i[4][1], i[4][2], Later)
  \/ \E i \in OverlapInputs :
       ExecuteTradeSqlite(i[1], i[2], i[3], i[4][1], i[4][2], Later, TRUE)
  \/ StatementCompletes

SpecOverlap == Init /\ [][NextOverlap]_vars

\* ------------------------------------------------------------------ ledger
\* the store of the active backend
Store == IF useMemory THEN memoryStore ELSE dbData

\* the call arguments are a well-formed order
WellFormed(c) == c.quantity > 0 /\ c.price > 0

\* C1 (solvency): in every reachable state every account's balance is >= 0,
\* for any arguments executeTrade accepts, on either backend.
C1_Solvency == \A u \in DOMAIN Store.users : Store.users[u] >= 0

\* C2 (positive holdings): every position entry that exists has a stored
\* quantity > 0; no executeTrade call leaves an entry with quantity <= 0.
C2_PositiveHoldings ==
  \A k \in DOMAIN Store.portfolios : Store.portfolios[k].quantity > 0

\* C3 (failure atomicity): when a write of a trade fails after the trade's
\* balance update has run, then once the call has finished the balance, the
\* positions and the log equal the pre-trade ones.
C3_FailureAtomicity ==
  \A t \in DOMAIN trades : Done(t) /\ trades[t].faulted => Store = trades[t].pre

\* the statements that write the position of a trade
PositionKinds == {"INSERT_PORTFOLIO", "UPDATE_PORTFOLIO", "UPDATE_QUANTITY",
                  "DELETE_PORTFOLIO"}
PositionWritePending(t) ==
  \/ \E st \in running : st.t = t /\ st.k \in PositionKinds
  \/ \E i \in DOMAIN queue : queue[i].s.t = t /\ queue[i].s.k \in PositionKinds
\* C4 (indivisible commit): no state has a trade's COMMIT executed while a
\* position write of the same trade has not yet been applied.
C4_IndivisibleCommit ==
  \A t \in DOMAIN trades : trades[t].committed => ~PositionWritePending(t)

\* the update rules for one logged BUY or SELL, applied to a replayed account
ReplayStep(r, tx) ==
  LET held == tx.symbol \in DOMAIN r.pos
      old == r.pos[tx.symbol]
  IN IF tx.type = "BUY"
     THEN [r EXCEPT !.bal = @ - tx.price * tx.quantity,
                    !.pos = Put(@, tx.symbol,
                      IF held
                      THEN [quantity |-> old.quantity + tx.quantity,
                            average_price |->
                              FDiv(FAdd(FMul(Num(old.quantity), old.average_price),
                                        Num(tx.price * tx.quantity)),
                                   Num(old.quantity + tx.quantity))]
                      ELSE [quantity |-> tx.quantity, average_price |-> Num(tx.price)])]
     ELSE IF held /\ old.quantity >= tx.quantity
     THEN [r EXCEPT !.bal = @ + tx.price * tx.quantity,
                    !.pos = IF old.quantity = tx.quantity THEN Del(@, tx.symbol)
                            ELSE Put(@, tx.symbol,
                                     [old EXCEPT !.quantity = @ - tx.quantity])]
     ELSE [r EXCEPT !.ok = FALSE]

RECURSIVE Replay(_, _, _)
Replay(r, log, u) ==
  IF log = <<>> THEN r
  ELSE Replay(IF Head(log).user_id = u THEN ReplayStep(r, Head(log)) ELSE r,
              Tail(log), u)

Positions(store, u) ==
  [sym \in {x \in Symbols : <<u, x>> \in DOMAIN store.portfolios} |->
     store.portfolios[<<u, sym>>]]

\* C5 (reconstruction): replaying an account's log in id order from the
\* starting balance and no positions, by the BUY/SELL update rules, gives the
\* account's current balance and positions.
C5_Reconstruction ==
  Idle =>
    \A u \in DOMAIN Store.users :
      LET r == Replay([bal |-> DefaultBalance, pos |-> EmptyFn, ok |-> TRUE],
                      Store.transactions, u)
      IN r.ok /\ r.bal = Store.users[u] /\ r.pos = Positions(Store, u)

\* the call is a SELL of more than the account held when it was made
ShortSell(c) ==
  /\ c.type = "SELL"
  /\ c.userId \in DOMAIN c.pre.users
  /\ \/ <<c.userId, c.symbol>> \notin DOMAIN c.pre.portfolios
     \/ c.pre.portfolios[<<c.userId, c.symbol>>].quantity < c.quantity

\* C6 (insufficient holdings): a SELL for a symbol with no position, or for
\* more than is held, is rejected with 'Insufficient holdings' and leaves the
\* balance, the positions and the log as they were.
C6_InsufficientHoldings ==
  \A t \in DOMAIN trades :
    Done(t) /\ ShortSell(trades[t]) =>
      /\ trades[t].outcome = "rejected"
      /\ trades[t].error = "Insufficient holdings"
      /\ Store = trades[t].pre

\* the call is a BUY that costs more than the balance when it was made
Overdraw(c) ==
  /\ c.type = "BUY"
  /\ c.userId \in DOMAIN c.pre.users
  /\ c.price * c.quantity > c.pre.users[c.userId]

\* C7 (insufficient funds): a BUY whose price*quantity exceeds the balance is
\* rejected with 'Insufficient funds' (it never reports success, and it has
\* been rejected once its statements are through); the balance, the positions
\* and the log stay as they were before the call.
C7_InsufficientFunds ==
  \A t \in DOMAIN trades :
    Overdraw(trades[t]) =>
      /\ Store = trades[t].pre
      /\ trades[t].outcome # "resolved"
      /\ trades[t].outcome = "rejected" => trades[t].error = "Insufficient funds"
      /\ ~HasStatements(t) => trades[t].outcome = "rejected"

C7_Rejected ==
  \E t \in DOMAIN trades :
    Done(t) /\ Overdraw(trades[t]) /\ trades[t].outcome = "rejected"

\* C8 (input validation): a call with quantity <= 0 or price <= 0 is rejected
\* and leaves the balance, the positions and the log unchanged.
C8_InputValidation ==
  \A t \in DOMAIN trades :
    Done(t) /\ ~WellFormed(trades[t]) =>
      trades[t].outcome = "rejected" /\ Store = trades[t].pre

\* the call names an account that did not exist when it was made
UnknownAccount(c) == c.userId \notin DOMAIN c.pre.users

\* C9 (unknown account): a call for an account id that does not exist is
\* rejected with 'User not found' (it never reports success, and it has been
\* rejected once its statements are through); no balance, position or record
\* is created or changed.
C9_UnknownAccount ==
  \A t \in DOMAIN trades :
    UnknownAccount(trades[t]) =>
      /\ Store = trades[t].pre
      /\ trades[t].outcome # "resolved"
      /\ trades[t].outcome = "rejected" => trades[t].error = "User not found"
      /\ ~HasStatements(t) => trades[t].outcome = "rejected"

C9_Rejected ==
  \E t \in DOMAIN trades :
    Done(t) /\ UnknownAccount(trades[t]) /\ trades[t].outcome = "rejected"

\* C10 (exactly-once append-only log): a call that reports success has added
\* exactly one record, a call that reports an error has added none, and the
\* records that were in the log before the call are still there unchanged.
C10_ExactlyOnceLog ==
  \A t \in DOMAIN trades :
    Done(t) =>
      LET before == trades[t].pre.transactions
          after == Store.transactions
          added == IF trades[t].outcome = "resolved" THEN 1 ELSE 0
      IN /\ Len(after) = Len(before) + added
         /\ SubSeq(after, 1, Len(before)) = before

\* the call records kept are all the calls since the connection was last idle
WholeGroup ==
  /\ Idle
  /\ \E t \in DOMAIN trades :
       /\ trades[t].alone
       /\ \A x \in DOMAIN trades : trades[x].seq >= trades[t].seq
       /\ ncalls - trades[t].seq + 1 = Cardinality(DOMAIN trades)
GroupBase == trades[CHOOSE t \in DOMAIN trades : trades[t].alone].pre

\* some order of the calls ts, run one after another from store, gives every
\* call its reported outcome and ends in the current store
RECURSIVE SerialOrder(_, _)
SerialOrder(store, ts) ==
  IF ts = {} THEN store = Store
  ELSE \E t \in ts :
         LET c == trades[t]
             r == MemExecuteTrade(store, c.userId, c.symbol, c.type, c.price, c.quantity,
                                  c.now)
         IN /\ r.outcome = c.outcome
            /\ r.error = c.error
            /\ SerialOrder(r.store, ts \ {t})

\* C11 (serialized commits): when calls that were in flight together have all
\* finished, the balances, positions and log are those of running the same
\* calls one after another in some order, with the same outcome for each call.
C11_SerializedCommits ==
  WholeGroup /\ Cardinality(DOMAIN trades) > 1 =>
    SerialOrder(GroupBase, DOMAIN trades)

\* C12 (backend equivalence): a call made on the SQLite backend with no other
\* call in flight ends, once finished, with the success/error outcome and the
\* balances, positions and log that the memory branch gives for the same
\* arguments on the same store; so equal request sequences keep the two
\* backends equal.
C12_BackendEquivalence ==
  \A t \in DOMAIN trades :
    ~useMemory /\ Done(t) =>
      LET c == trades[t]
          r == MemExecuteTrade(c.pre, c.userId, c.symbol, c.type, c.price, c.quantity,
                               c.now)
      IN r.outcome = c.outcome /\ r.store = Store

\* C13 (single terminal outcome): a call that has finished has settled, as a
\* success or as an error; no call invokes both resolve and reject, and no
\* call issues both a COMMIT and a ROLLBACK.
C13_SingleOutcome ==
  \A t \in DOMAIN trades :
    /\ Done(t) => trades[t].outcome \in {"resolved", "rejected"}
    /\ ~({"resolved", "rejected"} \subseteq trades[t].called)
    /\ ~({"COMMIT", "ROLLBACK"} \subseteq trades[t].issued)

\* the committed log of the active backend (on SQLite: without the writes of
\* the transaction that is still open)
Log == IF useMemory THEN memoryStore.transactions ELSE dbSnap.transactions

\* C14 (ids in submission order): of two committed records, the one whose call
\* was submitted later (it read the later time) has the larger id, and no two
\* records share an id.
C14_IdsIncrease ==
  \A i \in DOMAIN Log, j \in DOMAIN Log :
    /\ Log[i].timestamp < Log[j].timestamp => Log[i].id < Log[j].id
    /\ i # j => Log[i].id # Log[j].id

\* C15 (timestamps in submission order): of two committed records, the one
\* committed later has the strictly later timestamp, for a time source that
\* never goes backwards but may return the same value twice.
C15_TimestampsIncrease ==
  \A i \in DOMAIN Log, j \in DOMAIN Log :
    i < j => Log[i].timestamp < Log[j].timestamp

\* C16 (most recent first): getTransactions returns exactly the records of the
\* account, in the reverse of the order in which they were committed, on both
\* backends, also when records carry equal timestamps.
C16_MostRecentFirst ==
  reply.op = "getTransactions" =>
    reply.rows = Reverse(RecordsOf(Store, reply.userId))

\* C17 (result of a successful trade): a call that has finished with success
\* returned the account's stored balance together with the record that the
\* trade added to the log, on both backends.
C17_SuccessResult ==
  \A t \in DOMAIN trades :
    Done(t) /\ trades[t].outcome = "resolved" =>
      /\ trades[t].balance = Store.users[trades[t].userId]
      /\ trades[t].transaction # <<>>
      /\ \E i \in DOMAIN Store.transactions :
           /\ i > Len(trades[t].pre.transactions)
           /\ Store.transactions[i] = trades[t].transaction[1]

\* the call made by the step that has just been taken
NewCall == trades'[CHOOSE t \in DOMAIN trades' : trades'[t].seq = ncalls']

\* C18 (one-shot downgrade): once useMemory is true it stays true, and every
\* later step leaves the SQLite connection and its tables untouched: a trade
\* is the memory branch applied to memoryStore, a new account is pushed onto
\* memoryStore, and every query is answered from memoryStore.
C18_OneShotDowngrade ==
  [][useMemory =>
       /\ useMemory'
       /\ UNCHANGED dbVars
       /\ ncalls' # ncalls =>
            LET c == NewCall
                r == MemExecuteTrade(memoryStore, c.userId, c.symbol, c.type, c.price,
                                     c.quantity, c.now)
            IN memoryStore' = r.store /\ c.outcome = r.outcome /\ c.balance = r.balance
       /\ reply' # reply /\ reply'.op # "none" => reply'.memory
       /\ reply' # reply /\ reply'.op = "createUser" =>
            memoryStore' = MemCreateUser(memoryStore, reply'.username).store
       /\ reply' # reply /\ reply'.op = "getUserById" =>
            reply'.rows = UserRow(memoryStore, reply'.userId)
       /\ reply' # reply /\ reply'.op = "getPortfolio" =>
            reply'.rows = PortfolioRows(memoryStore, reply'.userId)
       /\ reply' # reply /\ reply'.op = "getTransactions" =>
            reply'.rows = MemGetTransactions(memoryStore, reply'.userId)
  ]_vars

\* after a failed initialization a trade has succeeded on the memory store and
\* getPortfolio has returned the position it created
C18_ServedFromMemory ==
  /\ useMemory
  /\ \E t \in DOMAIN trades : trades[t].outcome = "resolved"
  /\ reply.op = "getPortfolio" /\ reply.rows # {}

\* C19 (default-account seeding): once initDatabase has resolved, and before
\* any trade or new account, the active backend holds exactly one account:
\* the default one, 'demo' with balance 100000.
C19_DefaultSeeding ==
  Resolved /\ ncalls = 0 /\ Cardinality(DOMAIN Store.users) <= 1 =>
    /\ DOMAIN Store.names = {DemoId}
    /\ Store.names[DemoId] = "demo"
    /\ Store.users[DemoId] = DefaultBalance

\* C20 (username uniqueness): no two accounts of the active backend have the
\* same username, and a createUser call with a username that was taken has
\* failed and added no account.
C20_UsernameUnique ==
  /\ \A a \in DOMAIN Store.names, b \in DOMAIN Store.names :
       a # b => Store.names[a] # Store.names[b]
  /\ reply.op = "createUser" /\ reply.taken => ~reply.ok /\ reply.added = {}

\* the call is a well-formed BUY for a position that was held, with a proper
\* quantity and average, when the call was made
BuyOnPosition(c) ==
  /\ c.type = "BUY" /\ WellFormed(c)
  /\ <<c.userId, c.symbol>> \in DOMAIN c.pre.portfolios
  /\ c.pre.portfolios[<<c.userId, c.symbol>>].quantity > 0
  /\ c.pre.portfolios[<<c.userId, c.symbol>>].average_price[2] > 0

\* C21 (weighted average cost): a BUY of qty at price that has finished with
\* success on a position (oldQty, oldAvg) leaves the position with quantity
\* oldQty + qty and average (oldQty*oldAvg + price*qty) / (oldQty + qty), on
\* both backends.
C21_WeightedAverage ==
  \A t \in DOMAIN trades :
    Done(t) /\ trades[t].outcome = "resolved" /\ BuyOnPosition(trades[t]) =>
      LET c == trades[t]
          key == <<c.userId, c.symbol>>
          old == c.pre.portfolios[key]
      IN /\ key \in DOMAIN Store.portfolios
         /\ Store.portfolios[key].quantity = old.quantity + c.quantity
         /\ Store.portfolios[key].average_price =
              FDiv(FAdd(FMul(Num(old.quantity), old.average_price),
                        Num(c.price * c.quantity)),
                   Num(old.quantity + c.quantity))

\* on SQLite, one unit bought at 40000 and one at 60000 are held at 50000
C21_Averaged ==
  /\ ~useMemory
  /\ \E t \in DOMAIN trades :
       /\ Done(t) /\ trades[t].outcome = "resolved" /\ BuyOnPosition(trades[t])
       /\ trades[t].price = 60000
       /\ Store.portfolios[<<trades[t].userId, trades[t].symbol>>] =
            [quantity |-> 2, average_price |-> Num(50000)]

\* the call is a well-formed SELL of exactly the quantity that was held
FullSell(c) ==
  /\ c.type = "SELL" /\ WellFormed(c)
  /\ <<c.userId, c.symbol>> \in DOMAIN c.pre.portfolios
  /\ c.pre.portfolios[<<c.userId, c.symbol>>].quantity = c.quantity

\* C22 (full liquidation): after a SELL of exactly the held quantity has
\* settled with success, getPortfolio returns no entry for the symbol, and
\* once the call has finished the position is gone and the balance is the
\* earlier one plus price*quantity.
C22_FullLiquidation ==
  \A t \in DOMAIN trades :
    trades[t].outcome = "resolved" /\ FullSell(trades[t]) =>
      LET c == trades[t]
          key == <<c.userId, c.symbol>>
      IN /\ reply.op = "getPortfolio" /\ reply.userId = c.userId =>
              \A row \in reply.rows : row.symbol # c.symbol
         /\ Done(t) =>
              /\ key \notin DOMAIN Store.portfolios
              /\ Store.users[c.userId] = c.pre.users[c.userId] + c.price * c.quantity

\* C23 (balance delta): once a call has finished, the account's balance is the
\* one before the call minus price*quantity after a successful BUY, plus
\* price*quantity after a successful SELL, and unchanged after an error.
C23_BalanceDelta ==
  \A t \in DOMAIN trades :
    Done(t) /\ trades[t].userId \in DOMAIN trades[t].pre.users =>
      LET c == trades[t]
          delta == IF c.outcome # "resolved" THEN 0
                   ELSE IF c.type = "BUY" THEN -(c.price * c.quantity)
                   ELSE c.price * c.quantity
      IN Store.users[c.userId] = c.pre.users[c.userId] + delta

\* the call is a well-formed BUY for a symbol the account did not hold
FirstBuy(c) ==
  /\ c.type = "BUY" /\ WellFormed(c)
  /\ c.userId \in DOMAIN c.pre.users
  /\ <<c.userId, c.symbol>> \notin DOMAIN c.pre.portfolios

PartialSell(c) ==
  /\ c.type = "SELL" /\ WellFormed(c)
  /\ <<c.userId, c.symbol>> \in DOMAIN c.pre.portfolios
  /\ c.pre.portfolios[<<c.userId, c.symbol>>].quantity > c.quantity

\* C25 (partial SELL frame): a SELL of fewer units than held that has finished
\* with success has decreased the position's quantity by the sold quantity
\* and left its average as it was, whatever the sale price.
C25_PartialSell ==
  \A t \in DOMAIN trades :
    Done(t) /\ trades[t].outcome = "resolved" /\ PartialSell(trades[t]) =>
      LET c == trades[t]
          key == <<c.userId, c.symbol>>
          old == c.pre.portfolios[key]
      IN /\ key \in DOMAIN Store.portfolios
         /\ Store.portfolios[key] = [old EXCEPT !.quantity = @ - c.quantity]

\* on SQLite, one of two units held at 40000 has been sold at 60000
C25_SoldOneOfTwo ==
  /\ ~useMemory
  /\ \E t \in DOMAIN trades :
       /\ Done(t) /\ trades[t].outcome = "resolved" /\ PartialSell(trades[t])
       /\ trades[t].price = 60000
       /\ Store.portfolios[<<trades[t].userId, trades[t].symbol>>] =
            [quantity |-> 1, average_price |-> Num(40000)]

\* C26 (well-formed records): every record in the log has type BUY or SELL
\* and a total_amount equal to its price times its quantity, whatever type
\* argument the calls were given.
C26_RecordShape ==
  \A i \in DOMAIN Store.transactions :
    /\ Store.transactions[i].type \in {"BUY", "SELL"}
    /\ Store.transactions[i].total_amount =
         Store.transactions[i].price * Store.transactions[i].quantity

\* C27 (startup ordering): a request is served only when initDatabase has
\* resolved, and no answer was given by the SQLite backend when the memory
\* store is selected.
C27_StartupOrdering ==
  [][/\ reply' # reply /\ reply'.op # "none" => Resolved
     /\ ncalls' # ncalls => Resolved
     /\ useMemory' /\ reply'.op # "none" => reply'.memory
  ]_vars

\* C28 (trade locality): from the moment executeTrade is called for account A
\* and symbol S, whether it succeeds or fails, every other account's balance,
\* every position other than (A, S) and every record already in the log are
\* as they were before the call.
C28_TradeLocality ==
  \A t \in DOMAIN trades :
    trades[t].seq = ncalls =>
      LET c == trades[t]
          key == <<c.userId, c.symbol>>
          n == Len(c.pre.transactions)
      IN /\ \A u \in DOMAIN c.pre.users \ {c.userId} :
              u \in DOMAIN Store.users /\ Store.users[u] = c.pre.users[u]
         /\ DOMAIN Store.portfolios \ {key} = DOMAIN c.pre.portfolios \ {key}
         /\ \A k \in DOMAIN c.pre.portfolios \ {key} :
              Store.portfolios[k] = c.pre.portfolios[k]
         /\ Len(Store.transactions) >= n
         /\ SubSeq(Store.transactions, 1, n) = c.pre.transactions

\* a sell that closed out one position of an account holding another symbol,
\* beside a second account
C28_SoldBesideOthers ==
  \E t \in DOMAIN trades :
    /\ trades[t].seq = ncalls /\ Done(t) /\ trades[t].outcome = "resolved"
    /\ trades[t].type = "SELL"
    /\ <<trades[t].userId, trades[t].symbol>> \in DOMAIN trades[t].pre.portfolios
    /\ \E k \in DOMAIN Store.portfolios :
         k[1] = trades[t].userId /\ k[2] # trades[t].symbol
    /\ Cardinality(DOMAIN Store.users) > 1

\* what the calls ts that report success add to the account's balance
RECURSIVE NetEffect(_)
NetEffect(ts) ==
  IF ts = {} THEN 0
  ELSE LET t == CHOOSE x \in ts : TRUE
           c == trades[t]
       IN (IF c.outcome # "resolved" THEN 0
           ELSE IF c.type = "BUY" THEN 0 - c.price * c.quantity
           ELSE c.price * c.quantity) + NetEffect(ts \ {t})

Committed == IF useMemory THEN memoryStore ELSE dbSnap

\* C29 (rollback isolation): when calls on the SQLite backend that were in
\* flight together have all finished, the successful ones being BUYs, what is
\* committed holds the debit and the record of every call that reported
\* success and of no call that reported an error: no ROLLBACK discarded a
\* successful call's writes and no COMMIT kept a failed call's writes.
C29_RollbackIsolation ==
  LET group == /\ WholeGroup
               /\ ~useMemory
               /\ Cardinality(DOMAIN trades) > 1
               /\ \A t \in DOMAIN trades :
                    trades[t].outcome = "resolved" => trades[t].type = "BUY"
  IN group =>
       /\ Committed.users[DemoId] = GroupBase.users[DemoId] + NetEffect(DOMAIN trades)
       /\ Len(Committed.transactions) =
            Len(GroupBase.transactions)
            + Cardinality({t \in DOMAIN trades : trades[t].outcome = "resolved"})

\* C30 (HTTP trade gate): every call POST /api/trade forwards to executeTrade
\* has a quantity >= 1 and a price > 0.
C30_TradeGate ==
  \A t \in DOMAIN trades : trades[t].quantity >= 1 /\ trades[t].price > 0
====
